---- MODULE Spec2Model ----
(***************************************************************************)
(* Elastic binary trees with 128-bit keys (eb128tree.c) over the generic   *)
(* trie walks of ebtree.h.                                                 *)
(*                                                                         *)
(* Memory is modelled as it is laid out in C: one root (a branches pair)   *)
(* and MaxNodes caller-owned eb128_node records, each with its header      *)
(* (branches, node_p, leaf_p, bit) and its key.  A tagged pointer is a     *)
(* record [p, t]: p is the address (NIL, ROOT or a record), t the tag in   *)
(* the low bit.  A 128-bit key is the set of the positions of its 1 bits,  *)
(* so that shifts, truncations to 32 bits and comparisons keep the width   *)
(* of the C types.                                                         *)
(***************************************************************************)
EXTENDS Integers, Sequences, FiniteSets, TLC

\* ------------------------------------------------------------------ bounds

\* number of node records the caller owns
MaxNodes == 3

\* number of entries of KeyTable the caller draws keys from
NumKeys == 4

\* number of eb128_insert and eb128_delete calls of a run
MaxOps == 4

\* ------------------------------------------------------- program constants

EB_LEFT == 0
EB_RGHT == 1
EB_LEAF == 1
EB_NODE == 0
EB_NODE_BITS == 1
EB_NODE_BRANCHES == 2
EB_NODE_BRANCH_MASK == 1

\* width of a long of the build; eb128tree.c compiles its #else branch
\* whenever this is below 128, that is on every build
BITS_PER_LONG == 64

\* ------------------------------------------------------------ 128-bit keys

Bits128 == 0..127

Max(S) == CHOOSE m \in S : \A i \in S : i <= m

\* a ^ b
Xor(a, b) == (a \ b) \cup (b \ a)

\* a >> n on an unsigned value
Shr(a, n) == {i - n : i \in {j \in a : j >= n}}

\* (unsigned int) a: the low 32 bits
Trunc32(a) == {i \in a : i < 32}

\* a & 1 as an integer 0 or 1
And1(a) == IF 0 \in a THEN 1 ELSE 0

\* a >= EB_NODE_BRANCHES for an unsigned value a
GeBranches(a) == \E i \in a : i >= EB_NODE_BITS

\* unsigned a < b: the highest differing bit is set in b
ULess(a, b) == a # b /\ Max(Xor(a, b)) \in b

\* (s128) a < (s128) b: two's complement, bit 127 is the sign
SLess(a, b) == ULess(Xor(a, {127}), Xor(b, {127}))

\* position of the highest bit set, counted from 1; 0 for a null value
fls128(a) == IF a = {} THEN 0 ELSE Max(a) + 1

\* the outcomes of the expression (1ULL << 127): the shift count exceeds the
\* width of unsigned long long, so the value is undefined; a build yields 0
\* (folded) or 1 << (127 mod 64) (the x86 shift), never bit 127
Shl127Outcomes == {{}, {63}}

\* the keys the caller uses
KeyTable == << {}, {64}, {0, 64}, {0}, {40}, {100}, {0, 40} >>

\* the keys the caller of the signed functions uses (bit 127 is the sign)
KeyTableI == << {}, {127}, {0}, {63}, {0, 127}, {64}, {63, 127} >>

Keys == {KeyTable[i] : i \in 1..NumKeys}

KeysI == {KeyTableI[i] : i \in 1..NumKeys}

\* ------------------------------------------------------- tagged pointers

NIL == -1
ROOT == 0
Nodes == 1..MaxNodes

eb_dotag(p, t) == [p |-> p, t |-> t]
eb_untag(tp) == tp.p
eb_gettag(tp) == tp.t
eb_clrtag(tp) == tp.p

NULL == eb_dotag(NIL, 0)

Branches(l, r) == (EB_LEFT :> l) @@ (EB_RGHT :> r)

\* root, node: the memory; shl127, ptrsize: what the build makes of
\* (1ULL << 127) and of sizeof(void *); order: the linked records in the
\* order of their insertion; ops: the number of insert and delete calls;
\* stored: the inserts that returned their argument minus the deletes of
\* linked records; last: the last call, its result and the traversal before
\* it; rd: a reader running eb128_lookup one loop iteration at a time
VARIABLES root, node, shl127, ptrsize, order, ops, stored, last, rd

vars == <<root, node, shl127, ptrsize, order, ops, stored, last, rd>>

\* what is fixed when the library is built
build == <<shl127, ptrsize>>

\* the memory the tree functions work on
Mem == [root |-> root, node |-> node]

\* the branches pair at address p (the root or the node part of a record)
Br(m, p) == IF p = ROOT THEN m.root ELSE m.node[p].b

SetBr(m, p, side, v) ==
    IF p = ROOT THEN [m EXCEPT !.root[side] = v]
    ELSE [m EXCEPT !.node[p].b[side] = v]

\* ------------------------------------------------------ generic trie walks

\* eb_walk_down: follow <side> from <start> down to a leaf; NULL stays NULL
RECURSIVE eb_walk_down(_, _, _)
eb_walk_down(m, start, side) ==
    IF eb_clrtag(start) = NIL THEN NIL
    ELSE IF eb_gettag(start) = EB_NODE
         THEN eb_walk_down(m, Br(m, eb_untag(start))[side], side)
         ELSE eb_untag(start)

eb_first(m) == eb_walk_down(m, m.root[EB_LEFT], EB_LEFT)

eb_last(m) == eb_walk_down(m, m.root[EB_LEFT], EB_RGHT)

\* the climb of eb_next: up through node_p while the link is tagged RIGHT
RECURSIVE eb_next_climb(_, _)
eb_next_climb(m, t) ==
    IF eb_gettag(t) # EB_LEFT
    THEN eb_next_climb(m, m.node[eb_untag(t)].node_p)
    ELSE t

eb_next(m, n) ==
    LET t == eb_next_climb(m, m.node[n].leaf_p)
        r == Br(m, eb_untag(t))[EB_RGHT]
    IN IF eb_clrtag(r) = NIL THEN NIL ELSE eb_walk_down(m, r, EB_LEFT)

\* the climb of eb_prev: up while the link is tagged LEFT; NULL when the
\* parent reached is the root (its right branch is null once untagged)
RECURSIVE eb_prev_climb(_, _)
eb_prev_climb(m, t) ==
    IF eb_gettag(t) = EB_LEFT
    THEN IF eb_clrtag(Br(m, eb_untag(t))[EB_RGHT]) = NIL
         THEN NULL
         ELSE eb_prev_climb(m, m.node[eb_untag(t)].node_p)
    ELSE t

eb_prev(m, n) ==
    LET t == eb_prev_climb(m, m.node[n].leaf_p)
    IN IF t = NULL THEN NIL
       ELSE eb_walk_down(m, Br(m, eb_untag(t))[EB_LEFT], EB_RGHT)

\* the climb of eb_next_unique: as eb_next, but a LEFT link stops the climb
\* only at a node that is not part of duplicates (bit >= 0); NULL when the
\* link reached is the root's
RECURSIVE eb_next_unique_climb(_, _)
eb_next_unique_climb(m, t) ==
    IF eb_gettag(t) = EB_LEFT
    THEN IF eb_clrtag(Br(m, eb_untag(t))[EB_RGHT]) = NIL
         THEN NULL
         ELSE IF m.node[eb_untag(t)].bit >= 0
              THEN t
              ELSE eb_next_unique_climb(m, m.node[eb_untag(t)].node_p)
    ELSE eb_next_unique_climb(m, m.node[eb_untag(t)].node_p)

eb_next_unique(m, n) ==
    LET t == eb_next_unique_climb(m, m.node[n].leaf_p)
    IN IF t = NULL THEN NIL
       ELSE LET r == Br(m, eb_untag(t))[EB_RGHT]
            IN IF eb_clrtag(r) = NIL THEN NIL ELSE eb_walk_down(m, r, EB_LEFT)

\* the climb of eb_prev_unique: a RIGHT link stops the climb only at a node
\* that is not part of duplicates
RECURSIVE eb_prev_unique_climb(_, _)
eb_prev_unique_climb(m, t) ==
    IF eb_gettag(t) # EB_LEFT
    THEN IF m.node[eb_untag(t)].bit >= 0
         THEN t
         ELSE eb_prev_unique_climb(m, m.node[eb_untag(t)].node_p)
    ELSE IF eb_clrtag(Br(m, eb_untag(t))[EB_RGHT]) = NIL
         THEN NULL
         ELSE eb_prev_unique_climb(m, m.node[eb_untag(t)].node_p)

eb_prev_unique(m, n) ==
    LET t == eb_prev_unique_climb(m, m.node[n].leaf_p)
    IN IF t = NULL THEN NIL
       ELSE eb_walk_down(m, Br(m, eb_untag(t))[EB_LEFT], EB_RGHT)

eb128_first(m) == eb_first(m)
eb128_last(m) == eb_last(m)
eb128_next(m, n) == eb_next(m, n)
eb128_prev(m, n) == eb_prev(m, n)
eb128_next_unique(m, n) == eb_next_unique(m, n)
eb128_prev_unique(m, n) == eb_prev_unique(m, n)

\* ---------------------------------------------------------------- lookups

\* what a build makes of a shift by a negative count (undefined in C): the
\* count is reduced modulo one of these widths
NegShiftMods == {32, 64, 128}

\* a >> n where n may be negative (eb128_lookup shifts by node.bit without
\* testing its sign); ub is the build's reduction of a negative count
ShrUB(a, n, ub) == IF n >= 0 THEN Shr(a, n) ELSE Shr(a, n % ub)

\* the loop "while (eb_gettag(troot) != EB_LEAF) troot = ...->b[side]" that
\* walks a duplicate subtree down one side to its leaf
RECURSIVE dup_walk(_, _, _)
dup_walk(m, troot, side) ==
    IF eb_gettag(troot) # EB_LEAF
    THEN dup_walk(m, Br(m, eb_untag(troot))[side], side)
    ELSE eb_untag(troot)

\* eb128_lookup_loop with the slip of returning the leaf the descent
\* reaches without comparing its key with x
RECURSIVE eb128_lookup_loop_anyleaf(_, _, _, _)
eb128_lookup_loop_anyleaf(m, troot, x, ub) ==
    LET n == eb_untag(troot)
        y == Xor(m.node[n].key, x)
        node_bit == m.node[n].bit
    IN IF eb_gettag(troot) = EB_LEAF
       THEN n
       ELSE IF y = {}
            THEN (IF node_bit < 0
                  THEN dup_walk(m, m.node[n].b[EB_LEFT], EB_LEFT)
                  ELSE n)
            ELSE IF GeBranches(ShrUB(y, node_bit, ub))
                 THEN NIL
                 ELSE eb128_lookup_loop_anyleaf(
                          m, m.node[n].b[And1(ShrUB(x, node_bit, ub))], x, ub)

\* the while(1) loop of eb128_lookup
RECURSIVE eb128_lookup_loop(_, _, _, _)
eb128_lookup_loop(m, troot, x, ub) ==
    LET n == eb_untag(troot)
        y == Xor(m.node[n].key, x)
        node_bit == m.node[n].bit
    IN IF eb_gettag(troot) = EB_LEAF
       THEN (IF m.node[n].key = x THEN n ELSE NIL)
       ELSE IF y = {}
            THEN (IF node_bit < 0
                  THEN dup_walk(m, m.node[n].b[EB_LEFT], EB_LEFT)
                  ELSE n)
            ELSE IF GeBranches(ShrUB(y, node_bit, ub))
                 THEN NIL
                 ELSE eb128_lookup_loop(
                          m, m.node[n].b[And1(ShrUB(x, node_bit, ub))], x, ub)

eb128_lookup(m, x, ub) ==
    IF m.root[EB_LEFT] = NULL THEN NIL
    ELSE eb128_lookup_loop(m, m.root[EB_LEFT], x, ub)

\* the while(1) loop of eb128i_lookup; key is x ^ (1ULL << 127)
RECURSIVE eb128i_lookup_loop(_, _, _, _, _)
eb128i_lookup_loop(m, troot, x, key, ub) ==
    LET n == eb_untag(troot)
        y == Xor(m.node[n].key, x)
        node_bit == m.node[n].bit
    IN IF eb_gettag(troot) = EB_LEAF
       THEN (IF m.node[n].key = x THEN n ELSE NIL)
       ELSE IF y = {}
            THEN (IF node_bit < 0
                  THEN dup_walk(m, m.node[n].b[EB_LEFT], EB_LEFT)
                  ELSE n)
            ELSE IF GeBranches(ShrUB(y, node_bit, ub))
                 THEN NIL
                 ELSE eb128i_lookup_loop(
                          m, m.node[n].b[And1(ShrUB(key, node_bit, ub))],
                          x, key, ub)

eb128i_lookup(m, x, ub, shl) ==
    IF m.root[EB_LEFT] = NULL THEN NIL
    ELSE eb128i_lookup_loop(m, m.root[EB_LEFT], x, Xor(x, shl), ub)

\* the bits of the nodes the while(1) loop of eb128_lookup goes down
\* through, in turn, duplicate sentinels (negative bit) left out
RECURSIVE eb128_lookup_descent(_, _, _, _)
eb128_lookup_descent(m, troot, x, ub) ==
    LET n == eb_untag(troot)
        y == Xor(m.node[n].key, x)
        node_bit == m.node[n].bit
    IN IF eb_gettag(troot) = EB_LEAF \/ y = {}
          \/ GeBranches(ShrUB(y, node_bit, ub))
       THEN <<>>
       ELSE (IF node_bit >= 0 THEN <<node_bit>> ELSE <<>>)
            \o eb128_lookup_descent(
                   m, m.node[n].b[And1(ShrUB(x, node_bit, ub))], x, ub)

\* what a call yields when it dereferences a null pointer or never leaves
\* a loop: no node and no NULL
FAULT == -2

\* dup_walk on memory that a writer may have changed under the reader
RECURSIVE dup_walk_live(_, _, _, _)
dup_walk_live(m, troot, side, fuel) ==
    IF eb_clrtag(troot) = NIL \/ fuel = 0 THEN FAULT
    ELSE IF eb_gettag(troot) # EB_LEAF
         THEN dup_walk_live(m, Br(m, eb_untag(troot))[side], side, fuel - 1)
         ELSE eb_untag(troot)

\* eb128_lookup_step with the slip of "node->key = x" for "node->key == x"
\* in the test of the leaf
eb128_lookup_step_assign(m, troot, x, ub) ==
    LET n == eb_untag(troot)
        y == Xor(m.node[n].key, x)
        node_bit == m.node[n].bit
        out(ret) == [m |-> m, done |-> TRUE, ret |-> ret, troot |-> NULL]
    IN IF n = NIL THEN out(FAULT)
       ELSE IF eb_gettag(troot) = EB_LEAF
       THEN [m |-> [m EXCEPT !.node[n].key = x], done |-> TRUE,
             ret |-> IF x # {} THEN n ELSE NIL, troot |-> NULL]
       ELSE IF y = {}
            THEN (IF node_bit < 0
                  THEN out(dup_walk_live(m, m.node[n].b[EB_LEFT], EB_LEFT,
                                         MaxNodes + 1))
                  ELSE out(n))
            ELSE IF GeBranches(ShrUB(y, node_bit, ub))
                 THEN out(NIL)
                 ELSE [m |-> m, done |-> FALSE, ret |-> NIL,
                       troot |-> m.node[n].b[And1(ShrUB(x, node_bit, ub))]]

\* one iteration of the while(1) loop of eb128_lookup, from the value of
\* troot: the memory it leaves (it writes none), whether the call returns,
\* what it returns, and the next troot
eb128_lookup_step(m, troot, x, ub) ==
    LET n == eb_untag(troot)
        y == Xor(m.node[n].key, x)
        node_bit == m.node[n].bit
        out(ret) == [m |-> m, done |-> TRUE, ret |-> ret, troot |-> NULL]
    IN IF n = NIL THEN out(FAULT)
       ELSE IF eb_gettag(troot) = EB_LEAF
       THEN (IF m.node[n].key = x THEN out(n) ELSE out(NIL))
       ELSE IF y = {}
            THEN (IF node_bit < 0
                  THEN out(dup_walk_live(m, m.node[n].b[EB_LEFT], EB_LEFT,
                                         MaxNodes + 1))
                  ELSE out(n))
            ELSE IF GeBranches(ShrUB(y, node_bit, ub))
                 THEN out(NIL)
                 ELSE [m |-> m, done |-> FALSE, ret |-> NIL,
                       troot |-> m.node[n].b[And1(ShrUB(x, node_bit, ub))]]

\* unsigned a <= b
ULeq(a, b) == a = b \/ ULess(a, b)

\* the descent of eb128_lookup_le: either a node is returned (done) or the
\* loop is left by break with troot set to a parent link (t)
RECURSIVE eb128_lookup_le_loop(_, _, _)
eb128_lookup_le_loop(m, troot, x) ==
    LET n == eb_untag(troot)
        key == m.node[n].key
        bit == m.node[n].bit
    IN IF eb_gettag(troot) = EB_LEAF
       THEN (IF ULeq(key, x)
             THEN [done |-> TRUE, ret |-> n, t |-> NULL]
             ELSE [done |-> FALSE, ret |-> NIL, t |-> m.node[n].leaf_p])
       ELSE IF bit < 0
            THEN (IF ULeq(key, x)
                  THEN [done |-> TRUE,
                        ret |-> dup_walk(m, m.node[n].b[EB_RGHT], EB_RGHT),
                        t |-> NULL]
                  ELSE [done |-> FALSE, ret |-> NIL, t |-> m.node[n].node_p])
            ELSE IF GeBranches(Shr(Xor(x, key), bit))
                 THEN (IF ULess(Shr(key, bit), Shr(x, bit))
                       THEN [done |-> TRUE,
                             ret |-> eb_walk_down(m, m.node[n].b[EB_RGHT], EB_RGHT),
                             t |-> NULL]
                       ELSE [done |-> FALSE, ret |-> NIL,
                             t |-> m.node[n].node_p])
                 ELSE eb128_lookup_le_loop(m, m.node[n].b[And1(Shr(x, bit))], x)

\* the upward walk of eb128_lookup_le: while the link is tagged LEFT go up
\* through node_p, giving up at the root; then the rightmost leaf of the
\* left branch of the parent reached
RECURSIVE eb128_lookup_le_climb(_, _)
eb128_lookup_le_climb(m, troot) ==
    IF eb_gettag(troot) = EB_LEFT
    THEN IF eb_clrtag(Br(m, eb_untag(troot))[EB_RGHT]) = NIL
         THEN NIL
         ELSE eb128_lookup_le_climb(m, m.node[eb_untag(troot)].node_p)
    ELSE eb_walk_down(m, Br(m, eb_untag(troot))[EB_LEFT], EB_RGHT)

eb128_lookup_le(m, x) ==
    IF m.root[EB_LEFT] = NULL THEN NIL
    ELSE LET d == eb128_lookup_le_loop(m, m.root[EB_LEFT], x)
         IN IF d.done THEN d.ret ELSE eb128_lookup_le_climb(m, d.t)

\* the descent of eb128_lookup_ge, as for eb128_lookup_le
RECURSIVE eb128_lookup_ge_loop(_, _, _)
eb128_lookup_ge_loop(m, troot, x) ==
    LET n == eb_untag(troot)
        key == m.node[n].key
        bit == m.node[n].bit
    IN IF eb_gettag(troot) = EB_LEAF
       THEN (IF ULeq(x, key)
             THEN [done |-> TRUE, ret |-> n, t |-> NULL]
             ELSE [done |-> FALSE, ret |-> NIL, t |-> m.node[n].leaf_p])
       ELSE IF bit < 0
            THEN (IF ULeq(x, key)
                  THEN [done |-> TRUE,
                        ret |-> dup_walk(m, m.node[n].b[EB_LEFT], EB_LEFT),
                        t |-> NULL]
                  ELSE [done |-> FALSE, ret |-> NIL, t |-> m.node[n].node_p])
            ELSE IF GeBranches(Shr(Xor(x, key), bit))
                 THEN (IF ULess(Shr(x, bit), Shr(key, bit))
                       THEN [done |-> TRUE,
                             ret |-> eb_walk_down(m, m.node[n].b[EB_LEFT], EB_LEFT),
                             t |-> NULL]
                       ELSE [done |-> FALSE, ret |-> NIL,
                             t |-> m.node[n].node_p])
                 ELSE eb128_lookup_ge_loop(m, m.node[n].b[And1(Shr(x, bit))], x)

\* the upward walk of eb128_lookup_ge: while the link is not tagged LEFT go
\* up through node_p; then the leftmost leaf of the right branch of the
\* parent reached, NULL when that branch is null once untagged
RECURSIVE eb128_lookup_ge_climb(_, _)
eb128_lookup_ge_climb(m, troot) ==
    IF eb_gettag(troot) # EB_LEFT
    THEN eb128_lookup_ge_climb(m, m.node[eb_untag(troot)].node_p)
    ELSE LET r == Br(m, eb_untag(troot))[EB_RGHT]
         IN IF eb_clrtag(r) = NIL THEN NIL ELSE eb_walk_down(m, r, EB_LEFT)

eb128_lookup_ge(m, x) ==
    IF m.root[EB_LEFT] = NULL THEN NIL
    ELSE LET d == eb128_lookup_ge_loop(m, m.root[EB_LEFT], x)
         IN IF d.done THEN d.ret ELSE eb128_lookup_ge_climb(m, d.t)

\* the bits of the nodes the while(1) loop of eb128_lookup_le, and in the
\* same way that of eb128_lookup_ge, goes down through, in turn
RECURSIVE eb128_lookup_le_descent(_, _, _)
eb128_lookup_le_descent(m, troot, x) ==
    LET n == eb_untag(troot)
        bit == m.node[n].bit
    IN IF eb_gettag(troot) = EB_LEAF \/ bit < 0
          \/ GeBranches(Shr(Xor(x, m.node[n].key), bit))
       THEN <<>>
       ELSE <<bit>>
            \o eb128_lookup_le_descent(m, m.node[n].b[And1(Shr(x, bit))], x)

\* eb128_lookup_le_up (below) with the slip of climbing without the test for the
\* root
RECURSIVE eb128_lookup_le_up_noroot(_, _, _)
eb128_lookup_le_up_noroot(m, troot, fuel) ==
    LET p == eb_untag(troot)
    IN IF fuel = 0 \/ p = NIL THEN "fault"
       ELSE IF eb_gettag(troot) = EB_LEFT
            THEN IF p = ROOT THEN "fault"
                 ELSE eb128_lookup_le_up_noroot(m, m.node[p].node_p, fuel - 1)
            ELSE IF eb_clrtag(Br(m, p)[EB_LEFT]) = NIL THEN "fault"
                 ELSE "node"

\* how the upward walk of eb128_lookup_le ends when every pointer it uses
\* is looked at first: "null" (NULL returned at the root), "node" (a leaf
\* is walked down to), or "fault" (a null pointer untagged and
\* dereferenced, the root read as a node for its node_p, a null branch
\* walked down, or no end after <fuel> links)
RECURSIVE eb128_lookup_le_up(_, _, _)
eb128_lookup_le_up(m, troot, fuel) ==
    LET p == eb_untag(troot)
    IN IF fuel = 0 \/ p = NIL THEN "fault"
       ELSE IF eb_gettag(troot) = EB_LEFT
            THEN IF eb_clrtag(Br(m, p)[EB_RGHT]) = NIL THEN "null"
                 ELSE IF p = ROOT THEN "fault"
                 ELSE eb128_lookup_le_up(m, m.node[p].node_p, fuel - 1)
            ELSE IF eb_clrtag(Br(m, p)[EB_LEFT]) = NIL THEN "fault"
                 ELSE "node"

\* the same for the upward walk of eb128_lookup_ge
RECURSIVE eb128_lookup_ge_up(_, _, _)
eb128_lookup_ge_up(m, troot, fuel) ==
    LET p == eb_untag(troot)
    IN IF fuel = 0 \/ p = NIL THEN "fault"
       ELSE IF eb_gettag(troot) # EB_LEFT
            THEN IF p = ROOT THEN "fault"
                 ELSE eb128_lookup_ge_up(m, m.node[p].node_p, fuel - 1)
            ELSE IF eb_clrtag(Br(m, p)[EB_RGHT]) = NIL THEN "null"
                 ELSE "node"

\* ------------------------------------------------------ insert and delete

\* eb_insert_dup: attach <new> as the rightmost leaf of the duplicate
\* subtree whose top node is <sub>.  First the walk down the right branches
\* looking for the deepest hole in the (negative) bit numbering ...
RECURSIVE eb_insert_dup_walk(_, _, _)
eb_insert_dup_walk(m, head, sub) ==
    IF eb_gettag(m.node[head].b[EB_RGHT]) # EB_LEAF
    THEN LET nxt == eb_untag(m.node[head].b[EB_RGHT])
         IN eb_insert_dup_walk(
                m, nxt,
                IF m.node[nxt].bit > m.node[head].bit + 1 THEN nxt ELSE sub)
    ELSE [head |-> head, sub |-> sub]

\* ... then the insertion just above the last leaf (a hole exists there) or
\* above <sub>, one level lower than it
eb_insert_dup(m, sub0, new) ==
    LET w == eb_insert_dup_walk(m, sub0, sub0)
        head == w.head
        sub == w.sub
        new_left == eb_dotag(new, EB_LEFT)
        new_rght == eb_dotag(new, EB_RGHT)
        new_leaf == eb_dotag(new, EB_LEAF)
    IN IF m.node[head].bit < -1
       THEN LET leaf == eb_untag(m.node[head].b[EB_RGHT])
                m1 == [m EXCEPT !.node[new].bit = -1,
                                !.node[head].b[EB_RGHT] = eb_dotag(new, EB_NODE),
                                !.node[new].node_p = m.node[leaf].leaf_p,
                                !.node[new].leaf_p = new_rght,
                                !.node[leaf].leaf_p = new_left,
                                !.node[new].b =
                                    Branches(eb_dotag(leaf, EB_LEAF), new_leaf)]
            IN [m |-> m1, ret |-> new]
       ELSE LET side == eb_gettag(m.node[sub].node_p)
                par == eb_untag(m.node[sub].node_p)
                m1 == SetBr([m EXCEPT !.node[new].bit = m.node[sub].bit - 1],
                            par, side, eb_dotag(new, EB_NODE))
                m2 == [m1 EXCEPT !.node[new].node_p = m.node[sub].node_p,
                                 !.node[new].leaf_p = new_rght,
                                 !.node[sub].node_p = new_left,
                                 !.node[new].b =
                                     Branches(eb_dotag(sub, EB_NODE), new_leaf)]
            IN [m |-> m2, ret |-> new]

\* the branch taken below a node of bit old_node_bit ("walk down"): with
\* BITS_PER_LONG below 128 the side goes through the unsigned int <side>,
\* filled from the low word and, for bits from 32 up, from (newkey >> 32)
\* shifted by old_node_bit & 0x1F
eb128_insert_side(newkey, old_node_bit) ==
    IF BITS_PER_LONG >= 128
    THEN And1(Shr(newkey, old_node_bit))
    ELSE IF old_node_bit >= 32
         THEN And1(Shr(Trunc32(Shr(newkey, 32)), old_node_bit % 32))
         ELSE And1(Shr(Trunc32(newkey), old_node_bit))

\* eb128_insert_finish with the slip of storing the bit in <old> instead
\* of <new>
eb128_insert_finish_oldbit(m, new, old, root_, side) ==
    LET b == fls128(Xor(m.node[new].key, m.node[old].key)) - EB_NODE_BITS
    IN [m |-> SetBr([m EXCEPT !.node[old].bit = b],
                    root_, side, eb_dotag(new, EB_NODE)),
        ret |-> new]

\* eb128_insert_finish with the slip of taking the bit from new->key alone
\* instead of new->key ^ old->key
eb128_insert_finish_noxor(m, new, old, root_, side) ==
    LET b == fls128(m.node[new].key) - EB_NODE_BITS
    IN [m |-> SetBr([m EXCEPT !.node[new].bit = b],
                    root_, side, eb_dotag(new, EB_NODE)),
        ret |-> new]

\* eb128_insert_finish with the slip of tagging the new branch EB_LEAF
eb128_insert_finish_leaftag(m, new, old, root_, side) ==
    LET b == fls128(Xor(m.node[new].key, m.node[old].key)) - EB_NODE_BITS
    IN [m |-> SetBr([m EXCEPT !.node[new].bit = b],
                    root_, side, eb_dotag(new, EB_LEAF)),
        ret |-> new]

\* the end of eb128_insert, after the loop: set the bit of <new> and hang
\* its node part below <root_> on <side>
eb128_insert_finish(m, new, old, root_, side) ==
    LET b == fls128(Xor(m.node[new].key, m.node[old].key)) - EB_NODE_BITS
    IN [m |-> SetBr([m EXCEPT !.node[new].bit = b],
                    root_, side, eb_dotag(new, EB_NODE)),
        ret |-> new]

\* the while(1) loop of eb128_insert
RECURSIVE eb128_insert_loop(_, _, _, _, _, _)
eb128_insert_loop(m, new, root_, side, troot, root_right) ==
    LET old == eb_untag(troot)
        newkey == m.node[new].key
        oldkey == m.node[old].key
        old_node_bit == m.node[old].bit
        new_left == eb_dotag(new, EB_LEFT)
        new_rght == eb_dotag(new, EB_RGHT)
        new_leaf == eb_dotag(new, EB_LEAF)
        old_leaf == eb_dotag(old, EB_LEAF)
        old_node == eb_dotag(old, EB_NODE)
    IN IF eb_gettag(troot) = EB_LEAF
       THEN LET m1 == [m EXCEPT !.node[new].node_p = m.node[old].leaf_p]
            IN IF ULess(newkey, oldkey)
               THEN eb128_insert_finish(
                        [m1 EXCEPT !.node[new].leaf_p = new_left,
                                   !.node[old].leaf_p = new_rght,
                                   !.node[new].b = Branches(new_leaf, old_leaf)],
                        new, old, root_, side)
               ELSE IF newkey = oldkey /\ eb_gettag(root_right) # 0
                    THEN [m |-> m1, ret |-> old]
                    ELSE LET m2 == [m1 EXCEPT
                                      !.node[old].leaf_p = new_left,
                                      !.node[new].leaf_p = new_rght,
                                      !.node[new].b = Branches(old_leaf, new_leaf)]
                         IN IF newkey = oldkey
                            THEN [m |-> SetBr([m2 EXCEPT !.node[new].bit = -1],
                                              root_, side,
                                              eb_dotag(new, EB_NODE)),
                                  ret |-> new]
                            ELSE eb128_insert_finish(m2, new, old, root_, side)
       ELSE IF old_node_bit < 0
               \/ GeBranches(Shr(Xor(newkey, oldkey), old_node_bit))
            THEN LET m1 == [m EXCEPT !.node[new].node_p = m.node[old].node_p]
                 IN IF ULess(newkey, oldkey)
                    THEN eb128_insert_finish(
                             [m1 EXCEPT !.node[new].leaf_p = new_left,
                                        !.node[old].node_p = new_rght,
                                        !.node[new].b =
                                            Branches(new_leaf, old_node)],
                             new, old, root_, side)
                    ELSE IF ULess(oldkey, newkey)
                         THEN eb128_insert_finish(
                                  [m1 EXCEPT !.node[old].node_p = new_left,
                                             !.node[new].leaf_p = new_rght,
                                             !.node[new].b =
                                                 Branches(old_node, new_leaf)],
                                  new, old, root_, side)
                         ELSE eb_insert_dup(m1, old, new)
            ELSE LET s == eb128_insert_side(newkey, old_node_bit)
                 IN eb128_insert_loop(m, new, old, s, m.node[old].b[s],
                                      root_right)

\* the walk-down steps of the while(1) loop of eb128_insert for a record of
\* key <newkey>, from <troot> on: for each step in turn the bit of the node
\* left and the side taken
RECURSIVE eb128_insert_descent(_, _, _)
eb128_insert_descent(m, newkey, troot) ==
    LET old == eb_untag(troot)
        old_node_bit == m.node[old].bit
    IN IF eb_gettag(troot) = EB_LEAF THEN <<>>
       ELSE IF old_node_bit < 0
               \/ GeBranches(Shr(Xor(newkey, m.node[old].key), old_node_bit))
            THEN <<>>
            ELSE LET s == eb128_insert_side(newkey, old_node_bit)
                 IN <<[bit |-> old_node_bit, side |-> s]>>
                    \o eb128_insert_descent(m, newkey, m.node[old].b[s])

\* eb128_insert with the slip of hanging the first record of a tree on the
\* root's right branch
eb128_insert_rightslot(m, new) ==
    IF m.root[EB_LEFT] = NULL
    THEN [m |-> [m EXCEPT !.root[EB_RGHT] = eb_dotag(new, EB_LEAF),
                          !.node[new].leaf_p = eb_dotag(ROOT, EB_LEFT),
                          !.node[new].node_p = NULL],
          ret |-> new]
    ELSE eb128_insert_loop(m, new, ROOT, EB_LEFT, m.root[EB_LEFT],
                           m.root[EB_RGHT])

\* whether the while(1) loop of eb128_insert, for a record of key <newkey>
\* and from <troot> on, ends in the call of eb_insert_dup: it stops at a
\* node whose key is neither above nor below the new key
RECURSIVE eb128_insert_delegates(_, _, _)
eb128_insert_delegates(m, newkey, troot) ==
    LET old == eb_untag(troot)
        old_node_bit == m.node[old].bit
    IN IF eb_gettag(troot) = EB_LEAF THEN FALSE
       ELSE IF old_node_bit < 0
               \/ GeBranches(Shr(Xor(newkey, m.node[old].key), old_node_bit))
            THEN newkey = m.node[old].key
            ELSE eb128_insert_delegates(
                     m, newkey,
                     m.node[old].b[eb128_insert_side(newkey, old_node_bit)])

\* eb128_insert with the slip of not setting leaf_p of the first record of
\* a tree
eb128_insert_noleafp(m, new) ==
    IF m.root[EB_LEFT] = NULL
    THEN [m |-> [m EXCEPT !.root[EB_LEFT] = eb_dotag(new, EB_LEAF),
                          !.node[new].node_p = NULL],
          ret |-> new]
    ELSE eb128_insert_loop(m, new, ROOT, EB_LEFT, m.root[EB_LEFT],
                           m.root[EB_RGHT])

\* eb128_insert with the slip of returning <new> also when the key is
\* already in a unique tree
eb128_insert_retnew(m, new) ==
    IF m.root[EB_LEFT] = NULL
    THEN [m |-> [m EXCEPT !.root[EB_LEFT] = eb_dotag(new, EB_LEAF),
                          !.node[new].leaf_p = eb_dotag(ROOT, EB_LEFT),
                          !.node[new].node_p = NULL],
          ret |-> new]
    ELSE [m |-> eb128_insert_loop(m, new, ROOT, EB_LEFT, m.root[EB_LEFT],
                                  m.root[EB_RGHT]).m,
          ret |-> new]

\* eb128_insert(root, new): new.key is set by the caller
eb128_insert(m, new) ==
    IF m.root[EB_LEFT] = NULL
    THEN [m |-> [m EXCEPT !.root[EB_LEFT] = eb_dotag(new, EB_LEAF),
                          !.node[new].leaf_p = eb_dotag(ROOT, EB_LEFT),
                          !.node[new].node_p = NULL],
          ret |-> new]
    ELSE eb128_insert_loop(m, new, ROOT, EB_LEFT, m.root[EB_LEFT],
                           m.root[EB_RGHT])

\* the while(1) loop of eb128i_insert: the comparisons are signed, the side
\* is taken from newkey = new.key ^ (1ULL << 127)
RECURSIVE eb128i_insert_loop(_, _, _, _, _, _, _)
eb128i_insert_loop(m, new, root_, side, troot, root_right, newkey) ==
    LET old == eb_untag(troot)
        nkey == m.node[new].key
        oldkey == m.node[old].key
        old_node_bit == m.node[old].bit
        new_left == eb_dotag(new, EB_LEFT)
        new_rght == eb_dotag(new, EB_RGHT)
        new_leaf == eb_dotag(new, EB_LEAF)
        old_leaf == eb_dotag(old, EB_LEAF)
        old_node == eb_dotag(old, EB_NODE)
    IN IF eb_gettag(troot) = EB_LEAF
       THEN LET m1 == [m EXCEPT !.node[new].node_p = m.node[old].leaf_p]
            IN IF SLess(nkey, oldkey)
               THEN eb128_insert_finish(
                        [m1 EXCEPT !.node[new].leaf_p = new_left,
                                   !.node[old].leaf_p = new_rght,
                                   !.node[new].b = Branches(new_leaf, old_leaf)],
                        new, old, root_, side)
               ELSE IF nkey = oldkey /\ eb_gettag(root_right) # 0
                    THEN [m |-> m1, ret |-> old]
                    ELSE LET m2 == [m1 EXCEPT
                                      !.node[old].leaf_p = new_left,
                                      !.node[new].leaf_p = new_rght,
                                      !.node[new].b = Branches(old_leaf, new_leaf)]
                         IN IF nkey = oldkey
                            THEN [m |-> SetBr([m2 EXCEPT !.node[new].bit = -1],
                                              root_, side,
                                              eb_dotag(new, EB_NODE)),
                                  ret |-> new]
                            ELSE eb128_insert_finish(m2, new, old, root_, side)
       ELSE IF old_node_bit < 0
               \/ GeBranches(Shr(Xor(nkey, oldkey), old_node_bit))
            THEN LET m1 == [m EXCEPT !.node[new].node_p = m.node[old].node_p]
                 IN IF SLess(nkey, oldkey)
                    THEN eb128_insert_finish(
                             [m1 EXCEPT !.node[new].leaf_p = new_left,
                                        !.node[old].node_p = new_rght,
                                        !.node[new].b =
                                            Branches(new_leaf, old_node)],
                             new, old, root_, side)
                    ELSE IF SLess(oldkey, nkey)
                         THEN eb128_insert_finish(
                                  [m1 EXCEPT !.node[old].node_p = new_left,
                                             !.node[new].leaf_p = new_rght,
                                             !.node[new].b =
                                                 Branches(old_node, new_leaf)],
                                  new, old, root_, side)
                         ELSE eb_insert_dup(m1, old, new)
            ELSE LET s == eb128_insert_side(newkey, old_node_bit)
                 IN eb128i_insert_loop(m, new, old, s, m.node[old].b[s],
                                       root_right, newkey)

\* eb128i_insert(root, new); shl is the build's value of (1ULL << 127)
eb128i_insert(m, new, shl) ==
    IF m.root[EB_LEFT] = NULL
    THEN [m |-> [m EXCEPT !.root[EB_LEFT] = eb_dotag(new, EB_LEAF),
                          !.node[new].leaf_p = eb_dotag(ROOT, EB_LEFT),
                          !.node[new].node_p = NULL],
          ret |-> new]
    ELSE eb128i_insert_loop(m, new, ROOT, EB_LEFT, m.root[EB_LEFT],
                            m.root[EB_RGHT], Xor(m.node[new].key, shl))

\* SetParent with the slip of writing leaf_p whatever the branch's tag is
SetParent_leaf(m, branch, v) ==
    [m EXCEPT !.node[eb_untag(branch)].leaf_p = v]

\* the parent pointer of the child a branch refers to: leaf_p or node_p by
\* the branch's tag
SetParent(m, branch, v) ==
    IF eb_gettag(branch) = EB_LEAF
    THEN [m EXCEPT !.node[eb_untag(branch)].leaf_p = v]
    ELSE [m EXCEPT !.node[eb_untag(branch)].node_p = v]

\* eb_delete_unlink with the slip of clearing leaf_p only
eb_delete_unlink_leaf(m, n) == [m EXCEPT !.node[n].leaf_p = NULL]

\* the end of eb_delete: the record is unlinked, both parent pointers null
eb_delete_unlink(m, n) ==
    [m EXCEPT !.node[n].leaf_p = NULL, !.node[n].node_p = NULL]

\* eb_delete(node) on a linked node: the part after the test of leaf_p
eb_delete_linked(m, n) ==
    LET pside == eb_gettag(m.node[n].leaf_p)
        parent == eb_untag(m.node[n].leaf_p)
    IN IF eb_clrtag(Br(m, parent)[EB_RGHT]) = NIL
       THEN \* just below the root
            eb_delete_unlink(SetBr(m, parent, EB_LEFT, NULL), n)
       ELSE
       LET gpside == eb_gettag(m.node[parent].node_p)
           gparent == eb_untag(m.node[parent].node_p)
           sib == m.node[parent].b[1 - pside]
           \* the sibling takes the parent's place below the grand parent
           m1 == SetParent(SetBr(m, gparent, gpside, sib), sib,
                           eb_dotag(gparent, gpside))
           \* the parent's node part is now unused
           m2 == [m1 EXCEPT !.node[parent].node_p = NULL]
       IN IF m2.node[n].node_p = NULL
          THEN eb_delete_unlink(m2, n)
          ELSE
          \* the node part of n is in use: parent's node part replaces it
          LET m3 == [m2 EXCEPT !.node[parent].node_p = m2.node[n].node_p,
                               !.node[parent].b = m2.node[n].b,
                               !.node[parent].bit = m2.node[n].bit]
              gps == eb_gettag(m3.node[parent].node_p)
              gp == eb_untag(m3.node[parent].node_p)
              m4 == SetBr(m3, gp, gps, eb_dotag(parent, EB_NODE))
              m5 == SetParent(m4, m4.node[parent].b[EB_LEFT],
                              eb_dotag(parent, EB_LEFT))
              m6 == SetParent(m5, m5.node[parent].b[EB_RGHT],
                              eb_dotag(parent, EB_RGHT))
          IN eb_delete_unlink(m6, n)

\* eb_delete with the slip of leaving through the unlink of the record
\* instead of returning when leaf_p is null
eb_delete_clear(m, n) ==
    IF m.node[n].leaf_p = NULL THEN eb_delete_unlink(m, n)
    ELSE eb_delete_linked(m, n)

\* eb_delete(node): nothing to do for a node that is not linked
eb_delete(m, n) ==
    IF m.node[n].leaf_p = NULL THEN m
    ELSE eb_delete_linked(m, n)

\* ebpt_delete(ebpt): the record's header is handed to eb_delete
ebpt_delete(m, n) == eb_delete(m, n)

\* eb128_delete with the slip of returning without calling eb_delete
eb128_delete_noop(m, n) == m

\* eb128_delete(eb128): the record's header is handed to eb_delete
eb128_delete(m, n) == eb_delete(m, n)

\* ------------------------------------------------------------ pointer tree

\* (u64) a: the low 64 bits
Trunc64(a) == {i \in a : i < 64}

\* (uW) a for W = 32 or 64
TruncW(a, w) == IF w = 32 THEN Trunc32(a) ELSE Trunc64(a)

\* (PTR_INT_TYPE) x: the address as an integer of the width of size_t, the
\* width of a pointer
PtrInt(x, sz) == TruncW(x, 8 * sz)

\* the memory as the functions of a scalar tree of width w see it: they
\* read the key field of a record through a key of w bits
KeyView(m, w) ==
    [m EXCEPT !.node = [o \in Nodes |->
                          [m.node[o] EXCEPT !.key = TruncW(@, w)]]]

\* memory m2 with the key fields as they are in m (no tree function writes
\* a key)
WithKeys(m2, m) ==
    [m2 EXCEPT !.node = [o \in Nodes |->
                           [m2.node[o] EXCEPT !.key = m.node[o].key]]]

\* the scalar trees of 32 and 64 bits: the insertion and the lookups of the
\* scalar-key trees on keys of w bits
ebW_insert(m, new, w) ==
    LET r == eb128_insert(KeyView(m, w), new)
    IN [m |-> WithKeys(r.m, m), ret |-> r.ret]

eb32_insert(m, new) == ebW_insert(m, new, 32)
eb64_insert(m, new) == ebW_insert(m, new, 64)
eb32_lookup(m, x, ub) == eb128_lookup(KeyView(m, 32), x, ub)
eb64_lookup(m, x, ub) == eb128_lookup(KeyView(m, 64), x, ub)
eb32_lookup_le(m, x) == eb128_lookup_le(KeyView(m, 32), x)
eb64_lookup_le(m, x) == eb128_lookup_le(KeyView(m, 64), x)
eb32_lookup_ge(m, x) == eb128_lookup_ge(KeyView(m, 32), x)
eb64_lookup_ge(m, x) == eb128_lookup_ge(KeyView(m, 64), x)

\* ebpt_lookup(root, x); sz is sizeof(void *)
ebpt_lookup(m, x, sz, ub) ==
    IF sz = 4
    THEN eb32_lookup(m, Trunc32(PtrInt(x, sz)), ub)
    ELSE eb64_lookup(m, Trunc64(PtrInt(x, sz)), ub)

ebpt_lookup_le(m, x, sz) ==
    IF sz = 4
    THEN eb32_lookup_le(m, Trunc32(PtrInt(x, sz)))
    ELSE eb64_lookup_le(m, Trunc64(PtrInt(x, sz)))

ebpt_lookup_ge(m, x, sz) ==
    IF sz = 4
    THEN eb32_lookup_ge(m, Trunc32(PtrInt(x, sz)))
    ELSE eb64_lookup_ge(m, Trunc64(PtrInt(x, sz)))

\* ebpt_insert with the slip of testing the pointer size the wrong way round
ebpt_insert_swapped(m, new, sz) ==
    IF sz = 4 THEN eb64_insert(m, new) ELSE eb32_insert(m, new)

\* ebpt_insert(root, new): the record is handed over as an eb32_node or an
\* eb64_node
ebpt_insert(m, new, sz) ==
    IF sz = 4 THEN eb32_insert(m, new) ELSE eb64_insert(m, new)

\* ---------------------------------------------------------- state machine

\* a record before its first insertion, zeroed by the caller
FreshNode == [leaf_p |-> NULL, node_p |-> NULL, b |-> Branches(NULL, NULL),
              bit |-> 0, key |-> {}]

\* the reader when no eb128_lookup is in progress
NoReader == [pc |-> "idle", x |-> {}, troot |-> NULL, ret |-> NIL,
             ok |-> {}, dirty |-> FALSE]

\* what eb128_lookup(root, x) can return when it runs alone on memory m
LookupAlone(m, x) == {eb128_lookup(m, x, ub) : ub \in NegShiftMods}

\* a call of eb128_insert or eb128_delete that leaves memory m while the
\* reader is inside its loop: ok collects what eb128_lookup returns when
\* run alone on one of the trees the reader overlapped with
Disturb(r, m) ==
    IF r.pc = "loop"
    THEN [r EXCEPT !.dirty = TRUE, !.ok = @ \cup LookupAlone(m, r.x)]
    ELSE r

NoCall == [op |-> "none", n |-> NIL, k |-> {}, ret |-> NIL, pre |-> <<>>,
           undo |-> FALSE]

\* root initialised empty, unique or not (the tag of its right branch); the
\* unsigned functions never evaluate (1ULL << 127)
Init ==
    /\ \E unique \in {0, 1} : root = Branches(NULL, eb_dotag(NIL, unique))
    /\ node = [n \in Nodes |-> FreshNode]
    /\ shl127 = {}
    /\ ptrsize = 8
    /\ order = <<>>
    /\ ops = 0
    /\ stored = 0
    /\ last = NoCall
    /\ rd = NoReader

\* the same for a tree used through the signed functions, in a build with
\* one of the values of (1ULL << 127)
InitI ==
    /\ \E unique \in {0, 1} : root = Branches(NULL, eb_dotag(NIL, unique))
    /\ node = [n \in Nodes |-> FreshNode]
    /\ shl127 \in Shl127Outcomes
    /\ ptrsize = 8
    /\ order = <<>>
    /\ ops = 0
    /\ stored = 0
    /\ last = NoCall
    /\ rd = NoReader

Linked(n) == node[n].leaf_p # NULL

Remove(seq, n) == SelectSeq(seq, LAMBDA e : e # n)

LinkedSet == {n \in Nodes : Linked(n)}

\* the nodes eb128_next yields from <n> on, <n> included; the walk is cut
\* after <fuel> nodes
RECURSIVE WalkFrom(_, _, _)
WalkFrom(m, n, fuel) ==
    IF n = NIL \/ fuel = 0 THEN <<>>
    ELSE <<n>> \o WalkFrom(m, eb128_next(m, n), fuel - 1)

\* eb128_first, then eb128_next until it returns NULL
Traversal == WalkFrom(Mem, eb128_first(Mem), MaxNodes + 1)

TraversalKeys == [i \in 1..Len(Traversal) |-> node[Traversal[i]].key]

\* the caller sets new.key and calls eb128_insert(root, new) on a record
\* that is not linked
Insert(n, k) ==
    /\ ops < MaxOps
    /\ ~Linked(n)
    /\ LET r == eb128_insert([Mem EXCEPT !.node[n].key = k], n)
       IN /\ root' = r.m.root
          /\ node' = r.m.node
          /\ order' = IF r.ret = n THEN Append(order, n) ELSE order
          /\ stored' = IF r.ret = n THEN stored + 1 ELSE stored
          /\ last' = [op |-> "insert", n |-> n, k |-> k, ret |-> r.ret,
                      pre |-> Traversal, undo |-> FALSE]
          /\ rd' = Disturb(rd, r.m)
    /\ ops' = ops + 1
    /\ UNCHANGED build

\* the same through eb128i_insert
InsertI(n, k) ==
    /\ ops < MaxOps
    /\ ~Linked(n)
    /\ LET r == eb128i_insert([Mem EXCEPT !.node[n].key = k], n, shl127)
       IN /\ root' = r.m.root
          /\ node' = r.m.node
          /\ order' = IF r.ret = n THEN Append(order, n) ELSE order
          /\ stored' = IF r.ret = n THEN stored + 1 ELSE stored
          /\ last' = [op |-> "insert", n |-> n, k |-> k, ret |-> r.ret,
                      pre |-> Traversal, undo |-> FALSE]
          /\ rd' = Disturb(rd, r.m)
    /\ ops' = ops + 1
    /\ UNCHANGED build

\* eb128_delete(n), on a linked record or not
Delete(n) ==
    /\ ops < MaxOps
    /\ LET m == eb128_delete(Mem, n)
       IN /\ root' = m.root
          /\ node' = m.node
          /\ rd' = Disturb(rd, m)
    /\ order' = Remove(order, n)
    /\ stored' = IF Linked(n) THEN stored - 1 ELSE stored
    /\ last' = [op |-> "delete", n |-> n, k |-> {}, ret |-> NIL,
                pre |-> Traversal,
                undo |-> (last.op = "insert" /\ last.n = n)]
    /\ ops' = ops + 1
    /\ UNCHANGED build

Lookup(x) ==
    /\ \E ub \in NegShiftMods :
          last' = [op |-> "lookup", n |-> NIL, k |-> x,
                pre |-> <<>>, undo |-> FALSE,
                ret |-> eb128_lookup(Mem, x, ub)]
    /\ UNCHANGED <<root, node, build, order, ops, stored, rd>>

LookupI(x) ==
    /\ \E ub \in NegShiftMods :
          last' = [op |-> "lookup", n |-> NIL, k |-> x,
                pre |-> <<>>, undo |-> FALSE,
                ret |-> eb128i_lookup(Mem, x, ub, shl127)]
    /\ UNCHANGED <<root, node, build, order, ops, stored, rd>>

LookupLe(x) ==
    /\ last' = [op |-> "lookup_le", n |-> NIL, k |-> x,
                pre |-> <<>>, undo |-> FALSE,
                ret |-> eb128_lookup_le(Mem, x)]
    /\ UNCHANGED <<root, node, build, order, ops, stored, rd>>

LookupGe(x) ==
    /\ last' = [op |-> "lookup_ge", n |-> NIL, k |-> x,
                pre |-> <<>>, undo |-> FALSE,
                ret |-> eb128_lookup_ge(Mem, x)]
    /\ UNCHANGED <<root, node, build, order, ops, stored, rd>>

First ==
    /\ last' = [op |-> "first", n |-> NIL, k |-> {},
                pre |-> <<>>, undo |-> FALSE,
                ret |-> eb128_first(Mem)]
    /\ UNCHANGED <<root, node, build, order, ops, stored, rd>>

Last ==
    /\ last' = [op |-> "last", n |-> NIL, k |-> {},
                pre |-> <<>>, undo |-> FALSE,
                ret |-> eb128_last(Mem)]
    /\ UNCHANGED <<root, node, build, order, ops, stored, rd>>

\* eb128_next and eb128_prev are called on linked records
NextOf(n) ==
    /\ Linked(n)
    /\ last' = [op |-> "next", n |-> n, k |-> {},
                pre |-> <<>>, undo |-> FALSE,
                ret |-> eb128_next(Mem, n)]
    /\ UNCHANGED <<root, node, build, order, ops, stored, rd>>

PrevOf(n) ==
    /\ Linked(n)
    /\ last' = [op |-> "prev", n |-> n, k |-> {},
                pre |-> <<>>, undo |-> FALSE,
                ret |-> eb128_prev(Mem, n)]
    /\ UNCHANGED <<root, node, build, order, ops, stored, rd>>

\* eb128_next_unique and eb128_prev_unique are called on linked records
NextUniqueOf(n) ==
    /\ Linked(n)
    /\ last' = [op |-> "next_unique", n |-> n, k |-> {},
                pre |-> <<>>, undo |-> FALSE,
                ret |-> eb128_next_unique(Mem, n)]
    /\ UNCHANGED <<root, node, build, order, ops, stored, rd>>

PrevUniqueOf(n) ==
    /\ Linked(n)
    /\ last' = [op |-> "prev_unique", n |-> n, k |-> {},
                pre |-> <<>>, undo |-> FALSE,
                ret |-> eb128_prev_unique(Mem, n)]
    /\ UNCHANGED <<root, node, build, order, ops, stored, rd>>

Next ==
    \/ \E n \in Nodes, k \in Keys : Insert(n, k)
    \/ \E n \in Nodes : Delete(n)
    \/ First
    \/ Last
    \/ \E n \in Nodes : NextOf(n)
    \/ \E n \in Nodes : PrevOf(n)

\* inserts, deletes and traversals of a tree of unsigned keys
Spec == Init /\ [][Next]_vars

NextWalk ==
    \/ \E n \in Nodes, k \in Keys : Insert(n, k)
    \/ \E n \in Nodes : Delete(n)
    \/ \E n \in Nodes : NextOf(n)
    \/ \E n \in Nodes : NextUniqueOf(n)
    \/ \E n \in Nodes : PrevUniqueOf(n)

\* inserts, deletes and the walks that skip duplicates
SpecWalk == Init /\ [][NextWalk]_vars

\* the addresses the caller of the pointer tree uses
PtrTable == << {}, {31}, {63}, {0, 31}, {32}, {0} >>

\* those of them a pointer of the build can hold
Ptrs == {a \in {PtrTable[i] : i \in 1..NumKeys} :
           \A i \in a : i < 8 * ptrsize}

\* a pointer tree, in a build with pointers of 4 or of 8 bytes
InitPt ==
    /\ \E unique \in {0, 1} : root = Branches(NULL, eb_dotag(NIL, unique))
    /\ node = [n \in Nodes |-> FreshNode]
    /\ shl127 = {}
    /\ ptrsize \in {4, 8}
    /\ order = <<>>
    /\ ops = 0
    /\ stored = 0
    /\ last = NoCall
    /\ rd = NoReader

\* the caller sets new.key and calls ebpt_insert(root, new)
PtInsert(n, a) ==
    /\ ops < MaxOps
    /\ ~Linked(n)
    /\ LET r == ebpt_insert([Mem EXCEPT !.node[n].key = a], n, ptrsize)
       IN /\ root' = r.m.root
          /\ node' = r.m.node
          /\ order' = IF r.ret = n THEN Append(order, n) ELSE order
          /\ stored' = IF r.ret = n THEN stored + 1 ELSE stored
          /\ last' = [op |-> "insert", n |-> n, k |-> a, ret |-> r.ret,
                      pre |-> Traversal, undo |-> FALSE]
    /\ ops' = ops + 1
    /\ UNCHANGED <<build, rd>>

PtDelete(n) ==
    /\ ops < MaxOps
    /\ LET m == ebpt_delete(Mem, n)
       IN /\ root' = m.root
          /\ node' = m.node
    /\ order' = Remove(order, n)
    /\ stored' = IF Linked(n) THEN stored - 1 ELSE stored
    /\ last' = [op |-> "delete", n |-> n, k |-> {}, ret |-> NIL,
                pre |-> Traversal,
                undo |-> (last.op = "insert" /\ last.n = n)]
    /\ ops' = ops + 1
    /\ UNCHANGED <<build, rd>>

PtLookup(x) ==
    /\ \E ub \in NegShiftMods :
          last' = [op |-> "lookup", n |-> NIL, k |-> x,
                   pre |-> <<>>, undo |-> FALSE,
                   ret |-> ebpt_lookup(Mem, x, ptrsize, ub)]
    /\ UNCHANGED <<root, node, build, order, ops, stored, rd>>

PtLookupLe(x) ==
    /\ last' = [op |-> "lookup_le", n |-> NIL, k |-> x,
                pre |-> <<>>, undo |-> FALSE,
                ret |-> ebpt_lookup_le(Mem, x, ptrsize)]
    /\ UNCHANGED <<root, node, build, order, ops, stored, rd>>

PtLookupGe(x) ==
    /\ last' = [op |-> "lookup_ge", n |-> NIL, k |-> x,
                pre |-> <<>>, undo |-> FALSE,
                ret |-> ebpt_lookup_ge(Mem, x, ptrsize)]
    /\ UNCHANGED <<root, node, build, order, ops, stored, rd>>

NextPt ==
    \/ \E n \in Nodes, a \in Ptrs : PtInsert(n, a)
    \/ \E n \in Nodes : PtDelete(n)
    \/ \E x \in Ptrs : PtLookup(x)
    \/ \E x \in Ptrs : PtLookupLe(x)
    \/ \E x \in Ptrs : PtLookupGe(x)

\* a pointer tree: ebpt_insert, ebpt_delete and the ebpt lookups
SpecPt == InitPt /\ [][NextPt]_vars

\* a reader enters eb128_lookup(root, x): it reads root->b[EB_LEFT] and
\* returns NULL for an empty tree
RdBegin(x) ==
    /\ rd.pc = "idle"
    /\ rd' = IF root[EB_LEFT] = NULL
             THEN [pc |-> "done", x |-> x, troot |-> NULL, ret |-> NIL,
                   ok |-> {NIL}, dirty |-> FALSE]
             ELSE [pc |-> "loop", x |-> x, troot |-> root[EB_LEFT],
                   ret |-> NIL, ok |-> LookupAlone(Mem, x), dirty |-> FALSE]
    /\ UNCHANGED <<root, node, build, order, ops, stored, last>>

\* the reader runs one iteration of the loop of eb128_lookup
RdStep ==
    /\ rd.pc = "loop"
    /\ \E ub \in NegShiftMods :
       LET r == eb128_lookup_step(Mem, rd.troot, rd.x, ub)
       IN /\ root' = r.m.root
          /\ node' = r.m.node
          /\ rd' = IF r.done
                   THEN [rd EXCEPT !.pc = "done", !.ret = r.ret,
                                   !.troot = NULL]
                   ELSE [rd EXCEPT !.troot = r.troot]
    /\ UNCHANGED <<build, order, ops, stored, last>>

NextConc ==
    \/ \E n \in Nodes, k \in Keys : Insert(n, k)
    \/ \E n \in Nodes : Delete(n)
    \/ \E x \in Keys : RdBegin(x)
    \/ RdStep
    \/ First

\* a reader running eb128_lookup step by step among writers and another
\* reader
SpecConc == Init /\ [][NextConc]_vars

NextLookup ==
    \/ \E n \in Nodes, k \in Keys : Insert(n, k)
    \/ \E n \in Nodes : Delete(n)
    \/ \E x \in Keys : Lookup(x)

\* inserts, deletes and exact lookups
SpecLookup == Init /\ [][NextLookup]_vars

NextBound ==
    \/ \E n \in Nodes, k \in Keys : Insert(n, k)
    \/ \E n \in Nodes : Delete(n)
    \/ \E x \in Keys : LookupLe(x)
    \/ \E x \in Keys : LookupGe(x)

\* inserts, deletes and bounded lookups
SpecBound == Init /\ [][NextBound]_vars

NextI ==
    \/ \E n \in Nodes, k \in KeysI : InsertI(n, k)
    \/ \E n \in Nodes : Delete(n)
    \/ \E x \in KeysI : LookupI(x)
    \/ First
    \/ Last
    \/ \E n \in Nodes : NextOf(n)
    \/ \E n \in Nodes : PrevOf(n)

\* a tree of signed keys: eb128i_insert, eb128i_lookup, deletes, traversals
SpecI == InitI /\ [][NextI]_vars

\* ------------------------------------------------------------- properties

IsMinKey(n) == n # NIL /\ \A o \in LinkedSet : ULeq(node[n].key, node[o].key)

IsMaxKey(n) == n # NIL /\ \A o \in LinkedSet : ULeq(node[o].key, node[n].key)

\* C1: in every tree reached by eb128_insert and eb128_delete calls,
\* eb128_first returns a node of minimum key, eb128_last a node of maximum
\* key, and eb128_next repeated from eb128_first visits every linked node
\* exactly once, in non-decreasing key order, and then returns NULL
C1_TraversalSorted ==
    /\ Len(Traversal) = Cardinality(LinkedSet)
    /\ {Traversal[i] : i \in 1..Len(Traversal)} = LinkedSet
    /\ \A i, j \in 1..Len(Traversal) :
          i < j => ULeq(TraversalKeys[i], TraversalKeys[j])
    /\ IF LinkedSet = {}
       THEN eb128_first(Mem) = NIL /\ eb128_last(Mem) = NIL
       ELSE IsMinKey(eb128_first(Mem)) /\ IsMaxKey(eb128_last(Mem))

HasKey(x) == \E n \in LinkedSet : node[n].key = x

Unique == eb_gettag(root[EB_RGHT]) # 0

\* a step that is a call of eb128_insert or eb128i_insert
InsertStep == last'.op = "insert" /\ ops' = ops + 1

\* C2: right after eb128_insert(T, n) with n.key = k returned,
\* eb128_lookup(T, k) returns a node, and its key is k
C2_LookupAfterInsert ==
    [][(last.op = "insert" /\ last'.op = "lookup" /\ last'.k = last.k)
         => (last'.ret # NIL /\ node[last'.ret].key = last.k)]_vars

\* C3: eb128_lookup_le(T, x) returns NULL exactly when no linked key is
\* <= x; otherwise it returns a linked node holding the greatest key <= x,
\* the last of its duplicates in traversal order
C3_LookupLe ==
    last.op = "lookup_le" =>
        LET x == last.k
            r == last.ret
        IN /\ (r = NIL) <=> (\A n \in LinkedSet : ULess(x, node[n].key))
           /\ r # NIL =>
                 /\ r \in LinkedSet
                 /\ ULeq(node[r].key, x)
                 /\ \A n \in LinkedSet :
                       ULeq(node[n].key, x) => ULeq(node[n].key, node[r].key)
                 /\ LET nx == eb128_next(Mem, r)
                    IN nx = NIL \/ node[nx].key # node[r].key

\* C4: eb128_lookup_ge(T, x) returns NULL exactly when no linked key is
\* >= x; otherwise it returns a linked node holding the least key >= x,
\* the first of its duplicates in traversal order
C4_LookupGe ==
    last.op = "lookup_ge" =>
        LET x == last.k
            r == last.ret
        IN /\ (r = NIL) <=> (\A n \in LinkedSet : ULess(node[n].key, x))
           /\ r # NIL =>
                 /\ r \in LinkedSet
                 /\ ULeq(x, node[r].key)
                 /\ \A n \in LinkedSet :
                       ULeq(x, node[n].key) => ULeq(node[r].key, node[n].key)
                 /\ LET pv == eb128_prev(Mem, r)
                    IN pv = NIL \/ node[pv].key # node[r].key

\* C5: eb128_lookup(T, x) returns NULL when no linked node has key x
C5_LookupAbsent ==
    (last.op = "lookup" /\ ~HasKey(last.k)) => last.ret = NIL

\* the descent of the last lookup stopped at a duplicate sentinel whose key
\* differs from x: the tree is one duplicate subtree of another key
C5_Witness ==
    /\ last.op = "lookup"
    /\ last.ret = NIL
    /\ ~HasKey(last.k)
    /\ root[EB_LEFT] # NULL
    /\ eb_gettag(root[EB_LEFT]) = EB_NODE
    /\ node[eb_untag(root[EB_LEFT])].bit < 0

\* C6: in a non-unique tree, when a linked node has key x, eb128_lookup(T, x)
\* returns the first node of key x in traversal order
C6_LookupFirstDup ==
    (last.op = "lookup" /\ ~Unique /\ HasKey(last.k)) =>
        /\ last.ret # NIL
        /\ node[last.ret].key = last.k
        /\ LET pv == eb128_prev(Mem, last.ret)
           IN pv = NIL \/ node[pv].key # last.k

\* the links of the tree: the root's branches and, for the linked records,
\* their branches and parent pointers
Links ==
    [r |-> root,
     n |-> [n \in LinkedSet |->
              [b |-> node[n].b, leaf_p |-> node[n].leaf_p,
               node_p |-> node[n].node_p]]]

\* C7: eb128_insert(root, new) on a unique root with a linked node old of
\* key new.key returns old, not new, and changes no link of the tree
C7_UniqueReject ==
    [][(InsertStep /\ Unique /\ HasKey(last'.k))
         => /\ last'.ret # last'.n
            /\ last'.ret \in LinkedSet
            /\ node[last'.ret].key = last'.k
            /\ Links' = Links]_vars

\* the node part of record n is in use
NodeInUse(n) == Linked(n) /\ node[n].node_p # NULL

\* C8: in a unique tree no two linked nodes hold the same key and no
\* internal node has a negative bit
C8_UniqueKeys ==
    Unique =>
        /\ \A a, b \in LinkedSet : a # b => node[a].key # node[b].key
        /\ \A n \in Nodes : NodeInUse(n) => node[n].bit >= 0

\* position of n in a sequence without repetitions
Pos(seq, n) == CHOOSE i \in 1..Len(seq) : seq[i] = n

\* C9: in a non-unique tree the nodes of one key are enumerated by
\* eb128_next in the order of their insertion
C9_DupInsertionOrder ==
    ~Unique =>
        \A i, j \in 1..Len(Traversal) :
            (i < j /\ TraversalKeys[i] = TraversalKeys[j]
                   /\ Traversal[i] \in LinkedSet /\ Traversal[j] \in LinkedSet)
              => Pos(order, Traversal[i]) < Pos(order, Traversal[j])

\* C10: in a tree built with eb128i_insert, the traversal from eb128_first
\* by eb128_next yields every linked node once, in signed 128-bit order
C10_SignedOrder ==
    /\ Len(Traversal) = Cardinality(LinkedSet)
    /\ {Traversal[i] : i \in 1..Len(Traversal)} = LinkedSet
    /\ \A i, j \in 1..Len(Traversal) :
          i < j => ~SLess(TraversalKeys[j], TraversalKeys[i])

\* a step that is a call of eb128_delete
DeleteStep == last'.op = "delete" /\ ops' = ops + 1

\* the elements of a sequence
Range(seq) == {seq[i] : i \in 1..Len(seq)}

\* C11: eb128_delete(n) on a linked node n removes exactly n from the
\* in-order sequence: the traversal afterwards is the traversal before with
\* n taken out, the other nodes still linked and in the same relative order
C11_DeleteRemovesOne ==
    [][(DeleteStep /\ Linked(last'.n))
         => /\ Traversal' = Remove(Traversal, last'.n)
            /\ LinkedSet' = LinkedSet \ {last'.n}
            /\ Range(Traversal') = LinkedSet']_vars

\* eb128_delete has removed the middle one of three nodes, whose node part
\* was in use (the traversal goes on through an internal node of bit >= 0)
C11_Witness ==
    /\ last.op = "delete"
    /\ Len(last.pre) = 3
    /\ last.pre[2] = last.n
    /\ node[last.n].b # Branches(NULL, NULL)
    /\ Traversal = Remove(last.pre, last.n)

\* the keys of the nodes of a sequence, in memory nd
KeysOf(nd, seq) == [i \in 1..Len(seq) |-> nd[seq[i]].key]

\* C12: eb128_insert(T, n) immediately followed by eb128_delete(n) leaves
\* the in-order sequence of keys of T as it was before the insert, and in a
\* unique tree the in-order sequence of nodes too
C12_InsertDeleteRoundTrip ==
    [][(last.op = "insert" /\ DeleteStep /\ last'.n = last.n)
         => /\ KeysOf(node', Traversal') = KeysOf(node', last.pre)
            /\ Unique => Traversal' = last.pre]_vars

\* a node was inserted between two others and deleted by the next call
C12_Witness ==
    /\ last.op = "delete"
    /\ last.undo
    /\ Len(last.pre) = 3
    /\ last.pre[2] = last.n
    /\ Len(Traversal) = 2

\* the number of leaves below the branch tp, looking at most fuel levels down
RECURSIVE LeafCount(_, _, _)
LeafCount(m, tp, fuel) ==
    IF eb_clrtag(tp) = NIL \/ fuel = 0 THEN 0
    ELSE IF eb_gettag(tp) = EB_LEAF THEN 1
         ELSE LeafCount(m, Br(m, eb_untag(tp))[EB_LEFT], fuel - 1)
              + LeafCount(m, Br(m, eb_untag(tp))[EB_RGHT], fuel - 1)

\* C13: the number of leaves reachable from the root equals the number of
\* eb128_insert calls that returned their argument minus the number of
\* eb128_delete calls on linked nodes
C13_LeafCount ==
    LeafCount(Mem, root[EB_LEFT], MaxNodes + 1) = stored

\* a unique tree of two leaves has just rejected the insertion of a
\* duplicate key, the fourth call of the run
C13_Witness ==
    /\ last.op = "insert"
    /\ last.ret # last.n
    /\ stored = 2
    /\ ops = 4
    /\ LeafCount(Mem, root[EB_LEFT], MaxNodes + 1) = 2

\* the linked nodes of key k
WithKey(k) == {o \in LinkedSet : node[o].key = k}

\* n is the node of S the traversal visits first (last)
FirstOf(S, n) ==
    n \in S /\ \A o \in S : Pos(Traversal, n) <= Pos(Traversal, o)

LastOf(S, n) ==
    n \in S /\ \A o \in S : Pos(Traversal, o) <= Pos(Traversal, n)

\* C14: in a non-unique tree eb128_next_unique(n) returns the first node, in
\* traversal order, of the smallest key greater than n.key, or NULL when no
\* key is greater; eb128_prev_unique(n) returns the last node of the greatest
\* key smaller than n.key, or NULL; eb128_next(n) returns the duplicate of n
\* inserted next after n when there is one
C14_NextUnique ==
    ~Unique =>
      /\ last.op = "next_unique" =>
           LET above == {o \in LinkedSet : ULess(node[last.n].key, node[o].key)}
           IN IF above = {} THEN last.ret = NIL
              ELSE /\ last.ret \in above
                   /\ \A o \in above : ULeq(node[last.ret].key, node[o].key)
                   /\ FirstOf(WithKey(node[last.ret].key), last.ret)
      /\ last.op = "prev_unique" =>
           LET below == {o \in LinkedSet : ULess(node[o].key, node[last.n].key)}
           IN IF below = {} THEN last.ret = NIL
              ELSE /\ last.ret \in below
                   /\ \A o \in below : ULeq(node[o].key, node[last.ret].key)
                   /\ LastOf(WithKey(node[last.ret].key), last.ret)
      /\ last.op = "next" =>
           LET later == {o \in WithKey(node[last.n].key) :
                           Pos(order, last.n) < Pos(order, o)}
           IN later # {} =>
                /\ last.ret \in later
                /\ \A o \in later : Pos(order, last.ret) <= Pos(order, o)

\* the branch slots of the tree below (and including) the branches pair at
\* address holder, each with its holder, side and content, looking at most
\* fuel levels down; the root's right slot holds no child
RECURSIVE Slots(_, _, _)
Slots(m, holder, fuel) ==
    IF fuel = 0 THEN {}
    ELSE UNION {
           LET v == Br(m, holder)[side]
           IN IF eb_clrtag(v) = NIL THEN {}
              ELSE {[holder |-> holder, side |-> side, v |-> v]}
                   \cup (IF eb_gettag(v) = EB_NODE
                         THEN Slots(m, eb_untag(v), fuel - 1)
                         ELSE {})
           : side \in {EB_LEFT, EB_RGHT}}

TreeSlots == Slots(Mem, ROOT, MaxNodes + 1)

\* what a caller can observe of eb128_insert(root, n): the value returned,
\* the root, the other records, and of n its parent pointers and key and,
\* when its node part got linked, its branches and bit
InsertView(r, n) ==
    [ret |-> r.ret,
     root |-> r.m.root,
     rest |-> [o \in Nodes \ {n} |-> r.m.node[o]],
     leaf_p |-> r.m.node[n].leaf_p,
     node_p |-> r.m.node[n].node_p,
     key |-> r.m.node[n].key,
     inner |-> IF r.ret = n /\ r.m.node[n].node_p # NULL
               THEN <<r.m.node[n].b, r.m.node[n].bit>>
               ELSE <<>>]

\* the observable results of eb128_insert(root, n) on memory m
InsertViews(m, n) == {InsertView(r, n) : r \in {eb128_insert(m, n)}}

\* record n is detached: its parent pointers are null, no branch slot of
\* the tree and no parent pointer of a linked record refers to it, and
\* eb128_insert treats it as it treats a zeroed record
Detached(n) ==
    /\ node[n].leaf_p = NULL
    /\ node[n].node_p = NULL
    /\ \A s \in TreeSlots : eb_untag(s.v) # n
    /\ \A o \in LinkedSet :
          eb_untag(node[o].leaf_p) # n /\ eb_untag(node[o].node_p) # n
    /\ \A k \in Keys :
          InsertViews([Mem EXCEPT !.node[n].key = k], n)
          = InsertViews([Mem EXCEPT !.node[n] = [FreshNode EXCEPT !.key = k]],
                        n)

\* the record of the last call is detached
LastDetached == Detached(last.n)

C16_DeleteUnlinkedNoop ==
    [][/\ (DeleteStep /\ ~Linked(last'.n)) => (root' = root /\ node' = node)
       /\ \A n \in Nodes : ~Linked(n) => ebpt_delete(Mem, n) = Mem]_vars

\* eb128_delete was called on a record that an earlier delete had unlinked,
\* with another node linked
C16_Witness ==
    /\ last.op = "delete"
    /\ last.n \notin Range(last.pre)
    /\ last.pre # <<>>
    /\ Traversal = last.pre
    /\ node[last.n].b # Branches(NULL, NULL)
    /\ ~Linked(last.n)

\* the scalar operation of the pointer's width on the address x taken as an
\* unsigned integer
ScalarLookup(m, x, ub) ==
    IF ptrsize = 4 THEN eb32_lookup(m, x, ub) ELSE eb64_lookup(m, x, ub)

ScalarLookupLe(m, x) ==
    IF ptrsize = 4 THEN eb32_lookup_le(m, x) ELSE eb64_lookup_le(m, x)

ScalarLookupGe(m, x) ==
    IF ptrsize = 4 THEN eb32_lookup_ge(m, x) ELSE eb64_lookup_ge(m, x)

ScalarInsert(m, n) ==
    IF ptrsize = 4 THEN eb32_insert(m, n) ELSE eb64_insert(m, n)

\* C17: ebpt_insert, ebpt_lookup, ebpt_lookup_le and ebpt_lookup_ge return
\* the node, and leave the tree, that the scalar operation of the pointer's
\* width (eb32 for 4 bytes, eb64 otherwise) returns and leaves on the address
\* as an unsigned integer; so the traversal of a pointer tree is in unsigned
\* address order
C17_PointerTree ==
    /\ [](\A i, j \in 1..Len(Traversal) :
            i < j => ULeq(TraversalKeys[i], TraversalKeys[j]))
    /\ [][/\ (last'.op = "lookup" /\ last' # last) =>
                \E ub \in NegShiftMods :
                    last'.ret = ScalarLookup(Mem, last'.k, ub)
          /\ (last'.op = "lookup_le" /\ last' # last) =>
                last'.ret = ScalarLookupLe(Mem, last'.k)
          /\ (last'.op = "lookup_ge" /\ last' # last) =>
                last'.ret = ScalarLookupGe(Mem, last'.k)
          /\ InsertStep =>
                \A r \in {ScalarInsert(
                            [Mem EXCEPT !.node[last'.n].key = last'.k],
                            last'.n)} :
                    /\ last'.ret = r.ret
                    /\ root' = r.m.root
                    /\ node' = r.m.node]_vars

\* a pointer tree of 8-byte pointers holds three addresses, one of them with
\* its top bit set, and the last one was just inserted
C17_Witness ==
    /\ ptrsize = 8
    /\ last.op = "insert"
    /\ last.ret = last.n
    /\ Len(Traversal) = 3
    /\ \E n \in LinkedSet : 63 \in node[n].key
    /\ \E n \in LinkedSet : 31 \in node[n].key

\* a step of a read operation: a call recorded in last, or a step of the
\* reader
ReadStep ==
    \/ /\ last' # last
       /\ last'.op \in {"lookup", "lookup_le", "lookup_ge", "first", "last",
                        "next", "prev"}
    \/ rd' # rd /\ ops' = ops

LinkState(n) ==
    LET asLeaf == \E s \in TreeSlots : s.v = eb_dotag(n, EB_LEAF)
        asNode == \E s \in TreeSlots : s.v = eb_dotag(n, EB_NODE)
    IN IF asLeaf THEN (IF asNode THEN "leaf+node" ELSE "leaf")
       ELSE (IF asNode THEN "node" ELSE "unlinked")

LinkStates == [n \in Nodes |-> LinkState(n)]

\* the parts of C19 that do not depend on the order of the states: a record
\* is never linked as a node only, and the link states change only in a step
\* that is an insert or a delete call
LinkChangeRules(before, after) ==
    /\ \A n \in Nodes : after[n] # "node"
    /\ after # before => (InsertStep \/ DeleteStep)

\* the statement of C19 as it stands: each record goes unlinked ->
\* leaf only -> (optionally) leaf and node -> unlinked, in that order
C19_LifecycleInOrder ==
    [][\A b \in {LinkStates} : \A a \in {LinkStates'} :
          /\ LinkChangeRules(b, a)
          /\ \A n \in Nodes :
                \/ a[n] = b[n]
                \/ <<b[n], a[n]>> \in {<<"unlinked", "leaf">>,
                                       <<"leaf", "leaf+node">>,
                                       <<"leaf", "unlinked">>,
                                       <<"leaf+node", "unlinked">>}]_vars

\* C19: each record is unlinked, linked as a leaf only, or linked as a leaf
\* and a node, never as a node only; an insert call changes the state of its
\* record only, from unlinked to leaf only or directly to leaf and node; a
\* delete call takes its record to unlinked and may take other records from
\* leaf and node back to leaf only; no other step changes a link state
C19_Lifecycle ==
    [][\A b \in {LinkStates} : \A a \in {LinkStates'} :
          /\ LinkChangeRules(b, a)
          /\ InsertStep =>
                \A n \in Nodes :
                   \/ a[n] = b[n]
                   \/ /\ n = last'.n
                      /\ b[n] = "unlinked"
                      /\ a[n] \in {"leaf", "leaf+node"}
          /\ DeleteStep =>
                \A n \in Nodes :
                   \/ a[n] = b[n]
                   \/ n = last'.n /\ a[n] = "unlinked"
                   \/ n # last'.n /\ b[n] = "leaf+node" /\ a[n] = "leaf"]_vars

\* a delete has left a record whose node part had been in use linked as a
\* leaf only, next to another leaf below an internal node
C19_Witness ==
    /\ last.op = "delete"
    /\ Len(last.pre) = 3
    /\ \E o \in LinkedSet :
          /\ LinkState(o) = "leaf"
          /\ node[o].b # Branches(NULL, NULL)
    /\ \E o \in LinkedSet : LinkState(o) = "leaf+node"

\* the records linked as leaves below the tagged pointer <tp>
RECURSIVE LeavesUnder(_, _, _)
LeavesUnder(m, tp, fuel) ==
    IF eb_clrtag(tp) = NIL \/ fuel = 0 THEN {}
    ELSE IF eb_gettag(tp) = EB_LEAF THEN {eb_untag(tp)}
         ELSE LeavesUnder(m, Br(m, eb_untag(tp))[EB_LEFT], fuel - 1)
              \cup LeavesUnder(m, Br(m, eb_untag(tp))[EB_RGHT], fuel - 1)

\* the bits of key <k> above bit <b>
AboveBit(k, b) == {i \in k : i > b}

\* C20: for every internal node of the tree with bit b >= 0, every leaf of
\* its left subtree has bit b of its key clear, every leaf of its right
\* subtree has it set, and the leaves of both subtrees agree with the key of
\* the node on every bit above b
C20_TrieInvariant ==
    \A s \in TreeSlots :
       eb_gettag(s.v) = EB_NODE =>
          LET n == eb_untag(s.v)
              b == node[n].bit
              lft == LeavesUnder(Mem, node[n].b[EB_LEFT], MaxNodes + 1)
              rgt == LeavesUnder(Mem, node[n].b[EB_RGHT], MaxNodes + 1)
          IN b >= 0 =>
                /\ \A l \in lft : b \notin node[l].key
                /\ \A l \in rgt : b \in node[l].key
                /\ \A l \in lft \cup rgt :
                      AboveBit(node[l].key, b) = AboveBit(node[n].key, b)

\* the parent pointer a branch slot's child keeps for it: leaf_p of a child
\* referred to as a leaf, node_p of one referred to as a node
BackPointer(s) ==
    IF eb_gettag(s.v) = EB_LEAF THEN node[eb_untag(s.v)].leaf_p
    ELSE node[eb_untag(s.v)].node_p

\* C21: whenever a branch slot of the root or of an internal node refers to
\* a child as a leaf (as a node), the child's leaf_p (node_p) is that parent
\* tagged with the slot's side; and every non-null leaf_p (node_p) of a
\* linked record names a slot of the tree that refers to the record as a
\* leaf (as a node)
C21_ParentInverse ==
    /\ \A s \in TreeSlots : BackPointer(s) = eb_dotag(s.holder, s.side)
    /\ \A n \in LinkedSet :
          /\ [holder |-> eb_untag(node[n].leaf_p),
              side |-> eb_gettag(node[n].leaf_p),
              v |-> eb_dotag(n, EB_LEAF)] \in TreeSlots
          /\ node[n].node_p # NULL =>
                [holder |-> eb_untag(node[n].node_p),
                 side |-> eb_gettag(node[n].node_p),
                 v |-> eb_dotag(n, EB_NODE)] \in TreeSlots

\* a delete has moved the node part of one record into the place of the
\* deleted record's node part: two records are left, one of them linked as
\* a node below the root
C21_Witness ==
    /\ last.op = "delete"
    /\ Len(last.pre) = 3
    /\ node[last.n].b # Branches(NULL, NULL)
    /\ \E n \in LinkedSet :
          /\ n # last.n
          /\ node[n].node_p = eb_dotag(ROOT, EB_LEFT)
          /\ node[n].b = node[last.n].b

\* the records whose node part is linked in the tree
InternalNodes == {eb_untag(s.v) : s \in {t \in TreeSlots : eb_gettag(t.v) = EB_NODE}}

\* C22: the bit of an ordinary internal node is strictly greater than the
\* bit of each of its internal children, every bit eb128_insert assigned
\* from two different keys lies in 0..127, and below a duplicate sentinel
\* (negative bit) there is no ordinary internal node
C22_BitOrder ==
    /\ [](/\ \A s \in TreeSlots :
               (eb_gettag(s.v) = EB_NODE /\ s.holder # ROOT) =>
                  IF node[s.holder].bit >= 0
                  THEN node[eb_untag(s.v)].bit < node[s.holder].bit
                  ELSE node[eb_untag(s.v)].bit < 0
          /\ \A n \in InternalNodes :
               node[n].bit < 0 \/ node[n].bit \in Bits128)
    /\ [][(InsertStep /\ last'.ret = last'.n
             /\ last'.n \in InternalNodes'
             /\ \A o \in LinkedSet : node[o].key # last'.k)
            => node'[last'.n].bit \in Bits128]_vars

\* C23: at every node of bit b the descent of eb128_insert walks down
\* through, the side taken is bit b of the new key, the side eb128_lookup
\* takes with (x >> b) & 1; this for every reachable tree and every key the
\* caller may insert
C23_InsertSide ==
    root[EB_LEFT] # NULL =>
       \A k \in Keys :
          \A d \in {eb128_insert_descent(Mem, k, root[EB_LEFT])} :
             \A i \in 1..Len(d) : d[i].side = And1(Shr(k, d[i].bit))

\* C24: in a tree built with eb128i_insert, eb128i_lookup(T, x) returns a
\* linked node of key x when a linked node has the signed key x, and NULL
\* when none has
C24_SignedLookup ==
    last.op = "lookup" =>
       IF HasKey(last.k)
       THEN last.ret \in LinkedSet /\ node[last.ret].key = last.k
       ELSE last.ret = NIL

\* C25: in every reachable tree and for every x, when the descent of
\* eb128_lookup_le or eb128_lookup_ge leaves its loop for the upward walk,
\* the walk starts from a non-null link, never untags a null pointer and
\* never reads the root's parent pointer: it ends with NULL at the root or
\* with a walk down a non-null branch, and the call returns accordingly
C25_ClimbSafe ==
    root[EB_LEFT] # NULL =>
       \A x \in Keys :
          /\ \A d \in {eb128_lookup_le_loop(Mem, root[EB_LEFT], x)} :
                ~d.done =>
                   \A v \in {eb128_lookup_le_up(Mem, d.t, MaxNodes + 1)} :
                      /\ v # "fault"
                      /\ (v = "null") <=> (eb128_lookup_le(Mem, x) = NIL)
          /\ \A d \in {eb128_lookup_ge_loop(Mem, root[EB_LEFT], x)} :
                ~d.done =>
                   \A v \in {eb128_lookup_ge_up(Mem, d.t, MaxNodes + 1)} :
                      /\ v # "fault"
                      /\ (v = "null") <=> (eb128_lookup_ge(Mem, x) = NIL)

\* eb128_lookup_le has found every key of a tree of three records greater
\* than x after climbing from a leaf through an internal node up to the
\* root, and returned NULL
C25_Witness ==
    /\ last.op = "lookup_le"
    /\ last.ret = NIL
    /\ Cardinality(LinkedSet) = 3
    /\ \A d \in {eb128_lookup_le_loop(Mem, root[EB_LEFT], last.k)} :
          /\ ~d.done
          /\ eb_untag(d.t) # ROOT
          /\ eb128_lookup_le_up(Mem, d.t, MaxNodes + 1) = "null"

\* a sequence of numbers each strictly smaller than the one before
Decreasing(seq) == \A i \in 1..(Len(seq) - 1) : seq[i + 1] < seq[i]

\* C26: on every reachable tree and for every key, the descents of
\* eb128_lookup, eb128_lookup_le, eb128_lookup_ge and eb128_insert go down
\* through ordinary internal nodes of strictly decreasing bit, so through
\* at most one node per key bit; every walk down a duplicate subtree ends
\* at a leaf and every upward walk ends at the root or at a walk down, in
\* no more links than the tree has
C26_Terminates ==
    root[EB_LEFT] # NULL =>
       /\ \A x \in Keys :
             /\ \A d \in {eb128_insert_descent(Mem, x, root[EB_LEFT])} :
                   Decreasing([i \in 1..Len(d) |-> d[i].bit])
             /\ \A ub \in NegShiftMods :
                   Decreasing(eb128_lookup_descent(Mem, root[EB_LEFT], x, ub))
             /\ Decreasing(eb128_lookup_le_descent(Mem, root[EB_LEFT], x))
             /\ \A d \in {eb128_lookup_le_loop(Mem, root[EB_LEFT], x)} :
                   ~d.done =>
                      eb128_lookup_le_up(Mem, d.t, MaxNodes + 1) # "fault"
             /\ \A d \in {eb128_lookup_ge_loop(Mem, root[EB_LEFT], x)} :
                   ~d.done =>
                      eb128_lookup_ge_up(Mem, d.t, MaxNodes + 1) # "fault"
       /\ \A n \in InternalNodes :
             node[n].bit < 0 =>
                \A side \in {EB_LEFT, EB_RGHT} :
                   dup_walk_live(Mem, node[n].b[side], side, MaxNodes) # FAULT

\* the leaves below the node part of record n
LeavesBelow(n) == LeavesUnder(Mem, eb_dotag(n, EB_NODE), MaxNodes + 1)

\* C27: the node part of every record that has one in the tree is an
\* ancestor of the record's own leaf, eb128_insert making it the direct
\* parent; so every leaf below an internal node agrees with the key stored
\* in that node on the bits above the node's bit (on all bits below a
\* duplicate sentinel)
C27_NodeAboveOwnLeaf ==
    /\ [](\A n \in InternalNodes :
             /\ n \in LeavesBelow(n)
             /\ \A l \in LeavesBelow(n) :
                   IF node[n].bit >= 0
                   THEN AboveBit(node[l].key, node[n].bit)
                           = AboveBit(node[n].key, node[n].bit)
                   ELSE node[l].key = node[n].key)
    /\ [][(InsertStep /\ last'.ret = last'.n /\ root[EB_LEFT] # NULL)
            => /\ last'.n \in InternalNodes'
               /\ eb_untag(node'[last'.n].leaf_p) = last'.n]_vars

\* three records are linked and the node part of one of them is no longer
\* the direct parent of its own leaf: a later insert has put another node
\* between them
C27_Witness ==
    /\ last.op = "insert"
    /\ Cardinality(LinkedSet) = 3
    /\ \E n \in InternalNodes :
          /\ eb_untag(node[n].leaf_p) # n
          /\ n \in LeavesBelow(n)

\* the branch slots of the tree that refer to a node part
NodeSlots == {s \in TreeSlots : eb_gettag(s.v) = EB_NODE}

\* C28: the root's left branch is null exactly when no record is linked and
\* the root's right branch holds no pointer; a tree of n >= 1 linked
\* records has exactly n leaves, those n records, and exactly n - 1
\* internal nodes, the node parts of n - 1 different linked records, each
\* referred to by one slot; exactly one linked record is linked as a leaf
\* only, and in a tree of one record that leaf hangs on the root's left
\* branch
C28_LeafAndNodeCount ==
    /\ (root[EB_LEFT] = NULL) <=> (LinkedSet = {})
    /\ eb_clrtag(root[EB_RGHT]) = NIL
    /\ LinkedSet # {} =>
          /\ LeafCount(Mem, root[EB_LEFT], MaxNodes + 1) = Cardinality(LinkedSet)
          /\ LeavesUnder(Mem, root[EB_LEFT], MaxNodes + 1) = LinkedSet
          /\ Cardinality(NodeSlots) = Cardinality(LinkedSet) - 1
          /\ Cardinality(InternalNodes) = Cardinality(LinkedSet) - 1
          /\ InternalNodes \subseteq LinkedSet
          /\ Cardinality({r \in LinkedSet : LinkState(r) = "leaf"}) = 1
          /\ \A r \in LinkedSet :
                LinkedSet = {r} => root[EB_LEFT] = eb_dotag(r, EB_LEAF)

\* a delete has left two records, one internal node, and the record linked
\* as a leaf only is one whose node part was in use before
C28_Witness ==
    /\ last.op = "delete"
    /\ Cardinality(LinkedSet) = 2
    /\ Cardinality(InternalNodes) = 1
    /\ \E r \in LinkedSet \ InternalNodes :
          node[r].b # Branches(NULL, NULL)

\* the fields of the header of record n (all but the key)
Header(nd, n) ==
    [leaf_p |-> nd[n].leaf_p, node_p |-> nd[n].node_p,
     b |-> nd[n].b, bit |-> nd[n].bit]

\* C29: an eb128_insert that returns another record than new (the key is
\* already in a unique tree) leaves leaf_p, node_p, branches and bit of new
\* as they were before the call
C29_RejectWritesNothing ==
    [][(InsertStep /\ last'.ret # last'.n)
         => Header(node', last'.n) = Header(node, last'.n)]_vars

\* the parent pointers of records other than n that differ between two
\* memories, and the branch slots outside record n that differ
ParentsChanged(m1, m2, n) ==
    {<<o, f>> \in (Nodes \ {n}) \X {"leaf_p", "node_p"} :
        m1.node[o][f] # m2.node[o][f]}

SlotsChanged(m1, m2, n) ==
    {<<h, s>> \in (({ROOT} \cup Nodes) \ {n}) \X {EB_LEFT, EB_RGHT} :
        Br(m1, h)[s] # Br(m2, h)[s]}

\* C30: an eb128_insert that returns new and does not go through
\* eb_insert_dup changes, outside the header of new, no key, no bit, never
\* the root's right branch, and nothing but one parent pointer of one other
\* record and one branch slot; into a non-empty tree it changes exactly one
\* of each, into an empty tree the root's left branch alone
C30_InsertFrame ==
    [][(/\ InsertStep
        /\ last'.ret = last'.n
        /\ ~(root[EB_LEFT] # NULL
             /\ eb128_insert_delegates(Mem, last'.k, root[EB_LEFT])))
         => \A n \in {last'.n} :
            \A pc \in {ParentsChanged(Mem, Mem', n)} :
            \A sc \in {SlotsChanged(Mem, Mem', n)} :
               /\ node'[n].key = last'.k
               /\ \A o \in Nodes \ {n} :
                     /\ node'[o].key = node[o].key
                     /\ node'[o].bit = node[o].bit
               /\ root'[EB_RGHT] = root[EB_RGHT]
               /\ Cardinality(sc) = 1
               /\ IF root[EB_LEFT] = NULL
                  THEN pc = {} /\ sc = {<<ROOT, EB_LEFT>>}
                  ELSE /\ Cardinality(pc) = 1
                       /\ \A p \in pc : \A s \in sc :
                             /\ node'[p[1]][p[2]]
                                   \in {eb_dotag(n, EB_LEFT),
                                        eb_dotag(n, EB_RGHT)}
                             /\ Br(Mem', s[1])[s[2]] = eb_dotag(n, EB_NODE)
                             /\ node'[n].node_p = eb_dotag(s[1], s[2])]_vars

\* the last insert has put the new record, with a bit of its own, above an
\* internal node: the displaced record kept its leaf_p and got a new node_p
C30_Witness ==
    /\ last.op = "insert"
    /\ last.ret = last.n
    /\ last.n \in InternalNodes
    /\ node[last.n].bit >= 0
    /\ \E side \in {EB_LEFT, EB_RGHT} :
          /\ eb_gettag(node[last.n].b[side]) = EB_NODE
          /\ eb_clrtag(node[last.n].b[side]) # NIL

====
